---- MODULE Spec2Model ----
(***************************************************************************)
(* NextEditSuggestionBackend (guidellm/backends/next_edit_suggestion.py):  *)
(* the backend's lifecycle (process_startup / process_shutdown), validate, *)
(* and resolve with its streamed read loop and timing bookkeeping.         *)
(*                                                                         *)
(* Every coroutine is cut at its await points: the code between two awaits *)
(* runs atomically on the event loop and is one action here.               *)
(***************************************************************************)
EXTENDS Integers, Sequences, FiniteSets, TLC

\* ---------------------------------------------------------------- bounds
\* time.time() is read from a clock that never runs backwards, capped here.
MaxTime == 2
\* cap on timings.request_iterations (lines a timing record can count).
MaxIter == 3
\* cap on the number of httpx.AsyncClient objects ever allocated.
MaxClients == 2

\* ------------------------------------------------------- python values
\* Optional values: None is the empty tuple, a set value x is <<x>>.
None == <<>>
Some(x) == <<x>>
Val(o) == o[1]
Range(s) == {s[i] : i \in DOMAIN s}

\* ---------------------------------------------------------------- config
API_ROUTES ==
    [next_edit_suggestions |-> "/service/v5/generate/v1", health |-> "/health"]
OBLIGATORY_REQUEST_FIELDS ==
    <<"filepath", "prefix", "editable_region_prefix", "editable_region_suffix",
      "suffix", "history">>
OPTIONAL_REQUEST_FIELDS ==
    <<"max_length", "temperature", "seed", "top_p", "top_k">>
END_OF_STREAM_LINE == "data: end"

\* ------------------------------------------------------------ the inputs
\* The coroutines the event loop may run at once.
Tasks == {"t1", "t2"}
MainTask == "t1"

\* api_routes arguments of __init__: the default, and a table that routes
\* the request type of the docstring's CLI example.
RouteTables ==
    {API_ROUTES, [text_completions |-> "/v1/completions", health |-> "/health"]}
RequestTypes == {"next_edit_suggestions", "text_completions"}

Required == Range(OBLIGATORY_REQUEST_FIELDS)
Optional == Range(OPTIONAL_REQUEST_FIELDS)
AllFields == Required \cup Optional \cup {"foo"}
\* request.arguments.body, by its keys: the required fields alone, with
\* fields missing, with a superfluous field, and with both faults.
\* (SpecValidate below runs the validator on every body, those with
\* optional fields included.)
Bodies ==
    { Required,
      {"filepath", "prefix"},
      Required \cup {"foo"},
      (Required \ {"suffix"}) \cup {"foo"} }
\* history argument: absent (None), an empty list, one earlier turn.
Histories ==
    { [given |-> FALSE, turns |-> 0],
      [given |-> TRUE, turns |-> 0],
      [given |-> TRUE, turns |-> 1] }
\* Lines the server may stream.
Lines == {END_OF_STREAM_LINE, "", "partial:ab", "partial:abcd", "{malformed"}
\* Response statuses, as raise_for_status() sorts them.
Statuses == {"2xx", "5xx"}
\* httpx failures of a request in flight (ConnectError, ReadTimeout, ...),
\* by their common base class.
TransportErrors == {"httpx.TransportError"}
\* What an await may raise apart from them: the task's cancellation.
BaseExceptions == {"asyncio.CancelledError"}

\* ------------------------------------------------------------ exceptions
\* An exception: its Python type, its message (the text before any
\* interpolated value), the lists the message interpolates (named: the
\* field or type list the message names; got: the body's keys it echoes),
\* and the exception it was raised from.
NoExc == [type |-> "None", msg |-> "", named |-> {}, got |-> {}, cause |-> "None"]
Exc(type, msg) == [NoExc EXCEPT !.type = type, !.msg = msg]

BackendNotStarted == Exc("RuntimeError", "Backend not started up for process.")
BackendAlreadyStarted == Exc("RuntimeError", "Backend already started up for process.")
MultiTurnUnsupported == Exc("NotImplementedError", "Multi-turn requests not yet supported")
UnsupportedRequestType(supported) ==
    [Exc("ValueError", "Unsupported request type") EXCEPT !.named = supported]
\* raise RuntimeError(...) from e, in validate
ValidationRequestFailed(e) ==
    [Exc("RuntimeError", "Backend validation request failed.") EXCEPT !.cause = e]
\* raise RuntimeError(...) from e, in resolve
StreamingError(e) ==
    [Exc("RuntimeError", "Error processing streaming response from Next Edit Suggestion service")
        EXCEPT !.cause = e]

\* ------------------------------------------------------ request validator
\* Faulty variant: `any` for `all` in the test of the required fields.
validate_request_body_any(request_body) ==
    IF ~(\E key \in Range(OBLIGATORY_REQUEST_FIELDS) : key \in request_body)
    THEN [Exc("ValueError", "Request body is missing expected fields") EXCEPT
            !.named = Range(OBLIGATORY_REQUEST_FIELDS), !.got = request_body]
    ELSE LET superfluous_fields ==
                 {key \in request_body :
                    key \notin Range(OBLIGATORY_REQUEST_FIELDS \o OPTIONAL_REQUEST_FIELDS)}
         IN  IF superfluous_fields # {}
             THEN [Exc("ValueError", "Request body contains superfluous fields") EXCEPT
                     !.named = superfluous_fields, !.got = request_body]
             ELSE NoExc

\* The verdict of _validate_request_body: NoExc when it returns.
validate_request_body(request_body) ==
    IF ~(\A key \in Range(OBLIGATORY_REQUEST_FIELDS) : key \in request_body)
    THEN [Exc("ValueError", "Request body is missing expected fields") EXCEPT
            !.named = Range(OBLIGATORY_REQUEST_FIELDS), !.got = request_body]
    ELSE LET superfluous_fields ==
                 {key \in request_body :
                    key \notin Range(OBLIGATORY_REQUEST_FIELDS \o OPTIONAL_REQUEST_FIELDS)}
         IN  IF superfluous_fields # {}
             THEN [Exc("ValueError", "Request body contains superfluous fields") EXCEPT
                     !.named = superfluous_fields, !.got = request_body]
             ELSE NoExc

\* ------------------------------------------------------------ line decoder
\* The response handler of guidellm.backends.response_handlers, by its
\* contract: created anew per request; of its state, the number of lines it
\* consumed, the progress units it decoded, the number of lines that carried
\* one, whether it saw the end-of-stream line, and its compile calls.
NewHandler ==
    [consumed |-> 0, units |-> 0, unit_lines |-> 0, done |-> FALSE, compiled |-> 0]
\* add_streaming_line raises on a line it cannot decode.
DecoderRaises(chunk) == chunk = "{malformed"
\* add_streaming_line's return value: None at the end-of-stream line, else
\* the number of progress units the line carries.
LineIterations(chunk, end_of_stream_line) ==
    IF chunk = end_of_stream_line THEN None
    ELSE IF chunk = "partial:ab" THEN Some(1)
    ELSE IF chunk = "partial:abcd" THEN Some(2)
    ELSE Some(0)
\* add_streaming_line's effect on the handler.
add_streaming_line(h, chunk, end_of_stream_line) ==
    LET iterations == LineIterations(chunk, end_of_stream_line)
    IN  IF iterations = None
        THEN [h EXCEPT !.consumed = @ + 1, !.done = TRUE]
        ELSE [h EXCEPT !.consumed = @ + 1,
                       !.units = @ + Val(iterations),
                       !.unit_lines = @ + (IF Val(iterations) > 0 THEN 1 ELSE 0)]
compile_streaming(h) ==
    [h EXCEPT !.compiled = @ + 1]

\* ---------------------------------------------------------------- timings
\* RequestInfo().timings as the harness allocates it.
EmptyTimings ==
    [request_start |-> None, request_end |-> None,
     first_request_iteration |-> None, last_request_iteration |-> None,
     request_iterations |-> 0,
     first_token_iteration |-> None, last_token_iteration |-> None,
     token_iterations |-> 0]

\* request_info.timings.request_start = time.time()
SetRequestStart(t, time) == [t EXCEPT !.request_start = Some(time)]

\* the per-line request bookkeeping of the read loop
RecordRequestIteration(t, iter_time) ==
    [t EXCEPT
       !.first_request_iteration =
           IF t.first_request_iteration = None THEN Some(iter_time) ELSE @,
       !.last_request_iteration = Some(iter_time),
       !.request_iterations = @ + 1]

\* Faulty variant: `iterations < 0` for `iterations <= 0`.
SkipsTokenUpdateStrict(iterations, end_reached) ==
    iterations = None \/ Val(iterations) < 0 \/ end_reached

\* if iterations is None or iterations <= 0 or end_reached: ... continue
SkipsTokenUpdate(iterations, end_reached) ==
    iterations = None \/ Val(iterations) <= 0 \/ end_reached

\* Faulty variant: `end_reached = iterations is None`, which a later line
\* resets.
NextEndReachedLastLine(iterations, end_reached) ==
    iterations = None

\* end_reached = end_reached or iterations is None
NextEndReached(iterations, end_reached) ==
    end_reached \/ iterations = None

\* Faulty variant: first_token_iteration is assigned on every counted line.
RecordTokenIterationRestamps(t, iter_time, iterations) ==
    [t EXCEPT !.first_token_iteration = Some(iter_time),
              !.last_token_iteration = Some(iter_time),
              !.token_iterations = @ + Val(iterations)]

\* the per-line token bookkeeping of the read loop
RecordTokenIteration(t, iter_time, iterations) ==
    LET t1 == IF t.first_token_iteration = None
              THEN [t EXCEPT !.first_token_iteration = Some(iter_time),
                             !.token_iterations = 0]
              ELSE t
    IN  [t1 EXCEPT !.last_token_iteration = Some(iter_time),
                   !.token_iterations = @ + Val(iterations)]

\* Faulty variant: the finally clause is missing.
FinallyMissing(st, time) == st

\* finally: request_info.timings.request_end = time.time()
\* st is the timing record with the count of assignments to request_end.
FinallyClause(st, time) ==
    [timings |-> [st.timings EXCEPT !.request_end = Some(time)],
     endWrites |-> st.endWrites + 1]

\* One pass of the loop body on a line the decoder accepts.
LoopBody(t, iter_time, iterations, end_reached) ==
    LET t1 == RecordRequestIteration(t, iter_time)
    IN  IF SkipsTokenUpdate(iterations, end_reached)
        THEN t1
        ELSE RecordTokenIteration(t1, iter_time, iterations)

\* Faulty variant: `except BaseException`, which converts a cancellation
\* too.
ResolveEscapesCatchesAll(e) == StreamingError(e)

\* What leaves resolve's try statement when e is raised inside it:
\* `except Exception as e: raise RuntimeError(...) from e`. A
\* CancelledError derives from BaseException and passes the clause.
ResolveEscapes(e) ==
    IF e \in BaseExceptions THEN Exc(e, "") ELSE StreamingError(e)

\* Faulty variant: validate has no except clause.
ValidateEscapesRaw(e) == Exc(e, "")

\* What leaves validate's try statement when e is raised inside it: the
\* same clause, with validate's message.
ValidateEscapes(e) ==
    IF e \in BaseExceptions THEN Exc(e, "") ELSE ValidationRequestFailed(e)

\* Faulty variant: request_end is assigned after the loop, not in a
\* finally clause, so that an exception passes it by.
ExitTryEndAfterLoop(st, e, time) ==
    IF e = "None"
    THEN [timings |-> [st.timings EXCEPT !.request_end = Some(time)],
          endWrites |-> st.endWrites + 1, exc |-> NoExc, yields |-> TRUE]
    ELSE [timings |-> st.timings, endWrites |-> st.endWrites,
          exc |-> ResolveEscapes(e), yields |-> FALSE]

\* Faulty variant: the yield statement sits in the finally clause, so that a
\* pair is compiled and yielded on the way out of an exception too.
ExitTryYieldsInFinally(st, e, time) ==
    LET f == FinallyClause(st, time)
    IN  [timings |-> f.timings, endWrites |-> f.endWrites,
         exc |-> IF e = "None" THEN NoExc ELSE ResolveEscapes(e),
         yields |-> TRUE]

\* Leaving resolve's try statement at clock reading `time`, normally
\* (e = "None") or with e raised inside it: the except clause and the
\* finally clause. yields: control goes on to the yield statement.
ExitTry(st, e, time) ==
    LET f == FinallyClause(st, time)
    IN  [timings |-> f.timings, endWrites |-> f.endWrites,
         exc |-> IF e = "None" THEN NoExc ELSE ResolveEscapes(e),
         yields |-> (e = "None")]

\* Faulty variant: `if history:`, which lets an empty list pass.
ResolvePrecheckTruthyHistory(client, routes, request_type, body, history) ==
    IF client = None THEN BackendNotStarted
    ELSE IF history.given /\ history.turns > 0 THEN MultiTurnUnsupported
    ELSE IF request_type \notin DOMAIN routes
         THEN UnsupportedRequestType(DOMAIN routes)
    ELSE validate_request_body(body)

\* Faulty variant: the body is validated before the route is looked up.
ResolvePrecheckBodyFirst(client, routes, request_type, body, history) ==
    IF client = None THEN BackendNotStarted
    ELSE IF history.given THEN MultiTurnUnsupported
    ELSE IF validate_request_body(body) # NoExc THEN validate_request_body(body)
    ELSE IF request_type \notin DOMAIN routes
         THEN UnsupportedRequestType(DOMAIN routes)
    ELSE NoExc

\* Faulty variant: resolve does not test history and goes on without it.
ResolvePrecheckIgnoresHistory(client, routes, request_type, body, history) ==
    IF client = None THEN BackendNotStarted
    ELSE IF request_type \notin DOMAIN routes
         THEN UnsupportedRequestType(DOMAIN routes)
    ELSE validate_request_body(body)

\* Faulty variant: resolve does not test self._async_client.
ResolvePrecheckNoStartTest(client, routes, request_type, body, history) ==
    IF history.given THEN MultiTurnUnsupported
    ELSE IF request_type \notin DOMAIN routes
         THEN UnsupportedRequestType(DOMAIN routes)
    ELSE validate_request_body(body)

\* resolve's checks before the try statement, in the order of the code:
\* the exception of the first one that fails, NoExc when all pass.
ResolvePrecheck(client, routes, request_type, body, history) ==
    IF client = None THEN BackendNotStarted
    ELSE IF history.given THEN MultiTurnUnsupported
    ELSE IF request_type \notin DOMAIN routes
         THEN UnsupportedRequestType(DOMAIN routes)
    ELSE validate_request_body(body)

\* Faulty variant: request_start is recorded before the checks.
ResolveEntryStartsEarly(rec, precheck, time) ==
    IF precheck # NoExc
    THEN [timings |-> SetRequestStart(rec, time), sent |-> 0, pc |-> "idle"]
    ELSE [timings |-> SetRequestStart(rec, time), sent |-> 1, pc |-> "connect"]

\* resolve up to its first await: the timing record, the number of HTTP
\* requests issued and the place the coroutine is left at.
ResolveEntry(rec, precheck, time) ==
    IF precheck # NoExc
    THEN [timings |-> rec, sent |-> 0, pc |-> "idle"]
    ELSE [timings |-> SetRequestStart(rec, time), sent |-> 1, pc |-> "connect"]

\* end_reached after one pass of the loop body
EndReachedAfter(iterations, end_reached) ==
    IF SkipsTokenUpdate(iterations, end_reached)
    THEN NextEndReached(iterations, end_reached)
    ELSE end_reached

\* The read loop run from an empty timing record over a whole sequence of
\* lines the decoder accepts, by one call on its own: the timing record and
\* end_reached it ends with (every line stamped with time 0).
RECURSIVE ReadAlone(_)
ReadAlone(lines) ==
    IF lines = <<>>
    THEN [timings |-> EmptyTimings, end_reached |-> FALSE]
    ELSE LET before == ReadAlone(SubSeq(lines, 1, Len(lines) - 1))
             iterations == LineIterations(lines[Len(lines)], END_OF_STREAM_LINE)
         IN  [timings |-> LoopBody(before.timings, 0, iterations, before.end_reached),
              end_reached |-> EndReachedAfter(iterations, before.end_reached)]

\* ------------------------------------------------------------------ state
VARIABLES
    api_routes,     \* self.api_routes
    in_process,     \* self._in_process
    async_client,   \* self._async_client: None or Some(id of the client)
    clients,        \* number of httpx.AsyncClient objects allocated so far
    closeCount,     \* per client, the number of completed aclose() calls
    now,            \* the wall clock
    pc,             \* per task: where its coroutine is suspended
    op,             \* per task: the method it called last
    exc,            \* per task: the exception its last call raised (NoExc: none)
    args,           \* per task: request type, body and history of its resolve
    timings,        \* per task: request_info.timings
    endWrites,      \* per task: assignments to request_end during the call
    end_reached,    \* per task: resolve's local end_reached
    handler,        \* per task: resolve's response_handler
    yielded,        \* per task: pairs the call has yielded
    received,       \* per task: the lines its read loop has been handed so far
    sent,           \* per task: HTTP requests the call has issued
    closing,        \* per task: the client whose aclose() it awaits
    vbody,          \* the validator alone: its argument
    vverdict        \* the validator alone: its verdict

backend == <<api_routes, in_process, async_client, clients, closeCount>>
calls == <<args, timings, endWrites, end_reached, handler, yielded, received>>
alone == <<vbody, vverdict>>
vars == <<backend, now, pc, op, exc, calls, sent, closing, alone>>

NoArgs == [request_type |-> "", body |-> {}, history |-> [given |-> FALSE, turns |-> 0]]
Pending == [done |-> FALSE, exc |-> NoExc]

\* The reads of time.time() possible when the clock shows `from`.
Clock(from) == {t \in from..(from + 1) : t <= MaxTime}

\* __init__, and every task idle.
Init ==
    /\ api_routes \in RouteTables
    /\ in_process = FALSE
    /\ async_client = None
    /\ clients = 0
    /\ closeCount = <<>>
    /\ now = 0
    /\ pc = [p \in Tasks |-> "idle"]
    /\ op = [p \in Tasks |-> "none"]
    /\ exc = [p \in Tasks |-> NoExc]
    /\ args = [p \in Tasks |-> NoArgs]
    /\ timings = [p \in Tasks |-> EmptyTimings]
    /\ endWrites = [p \in Tasks |-> 0]
    /\ end_reached = [p \in Tasks |-> FALSE]
    /\ handler = [p \in Tasks |-> NewHandler]
    /\ yielded = [p \in Tasks |-> 0]
    /\ received = [p \in Tasks |-> <<>>]
    /\ sent = [p \in Tasks |-> 0]
    /\ closing = [p \in Tasks |-> None]
    /\ vbody = {}
    /\ vverdict = Pending

\* p calls a method other than resolve: the harness has dropped the
\* request, the timing record and the decoder of p's earlier resolve.
NoRequest(p) ==
    /\ args' = [args EXCEPT ![p] = NoArgs]
    /\ timings' = [timings EXCEPT ![p] = EmptyTimings]
    /\ endWrites' = [endWrites EXCEPT ![p] = 0]
    /\ end_reached' = [end_reached EXCEPT ![p] = FALSE]
    /\ handler' = [handler EXCEPT ![p] = NewHandler]
    /\ yielded' = [yielded EXCEPT ![p] = 0]
    /\ received' = [received EXCEPT ![p] = <<>>]

\* A call of p ends: it returned (e = NoExc) or raised e.
Ends(p, e) ==
    /\ pc' = [pc EXCEPT ![p] = "idle"]
    /\ exc' = [exc EXCEPT ![p] = e]

\* ------------------------------------------------------------- lifecycle
ProcessStartup(p) ==
    /\ pc[p] = "idle"
    /\ op' = [op EXCEPT ![p] = "process_startup"]
    /\ sent' = [sent EXCEPT ![p] = 0]
    /\ IF in_process
       THEN /\ Ends(p, BackendAlreadyStarted)
            /\ UNCHANGED backend
       ELSE /\ clients < MaxClients
            /\ clients' = clients + 1
            /\ closeCount' = Append(closeCount, 0)
            /\ async_client' = Some(clients + 1)
            /\ in_process' = TRUE
            /\ Ends(p, NoExc)
            /\ UNCHANGED api_routes
    /\ NoRequest(p)
    /\ UNCHANGED <<now, closing, alone>>

\* process_shutdown up to `await self._async_client.aclose()`
ProcessShutdown(p) ==
    /\ pc[p] = "idle"
    /\ op' = [op EXCEPT ![p] = "process_shutdown"]
    /\ sent' = [sent EXCEPT ![p] = 0]
    /\ IF ~in_process
       THEN /\ Ends(p, BackendNotStarted)
            /\ UNCHANGED closing
       ELSE IF async_client = None
       THEN /\ Ends(p, Exc("AttributeError", "'NoneType' object has no attribute 'aclose'"))
            /\ UNCHANGED closing
       ELSE /\ pc' = [pc EXCEPT ![p] = "aclose"]
            /\ exc' = [exc EXCEPT ![p] = NoExc]
            /\ closing' = [closing EXCEPT ![p] = async_client]
    /\ NoRequest(p)
    /\ UNCHANGED <<backend, now, alone>>

\* aclose() returns: the two assignments after it.
AcloseReturns(p) ==
    /\ pc[p] = "aclose"
    /\ closeCount' = [closeCount EXCEPT ![Val(closing[p])] = @ + 1]
    /\ async_client' = None
    /\ in_process' = FALSE
    /\ closing' = [closing EXCEPT ![p] = None]
    /\ Ends(p, NoExc)
    /\ UNCHANGED <<api_routes, clients, now, op, calls, sent, alone>>

\* Faulty variant: the handle is dropped in a finally clause, the flag is
\* cleared only after a close that worked.
AcloseRaisesDropsHandle(p, e) ==
    /\ pc[p] = "aclose"
    /\ closing' = [closing EXCEPT ![p] = None]
    /\ async_client' = None
    /\ Ends(p, Exc(e, ""))
    /\ UNCHANGED <<api_routes, in_process, clients, closeCount>>
    /\ UNCHANGED <<now, op, calls, sent, alone>>

\* aclose() raises (or the task is cancelled while awaiting it): the
\* exception leaves process_shutdown as it is.
AcloseRaises(p, e) ==
    /\ pc[p] = "aclose"
    /\ closing' = [closing EXCEPT ![p] = None]
    /\ Ends(p, Exc(e, ""))
    /\ UNCHANGED <<backend, now, op, calls, sent, alone>>

\* ---------------------------------------------------------------- validate
\* validate up to `await self._async_client.get(...)`
Validate(p) ==
    /\ pc[p] = "idle"
    /\ op' = [op EXCEPT ![p] = "validate"]
    /\ IF async_client = None
       THEN /\ Ends(p, BackendNotStarted)
            /\ sent' = [sent EXCEPT ![p] = 0]
       ELSE /\ pc' = [pc EXCEPT ![p] = "probe"]
            /\ exc' = [exc EXCEPT ![p] = NoExc]
            /\ sent' = [sent EXCEPT ![p] = 1]
    /\ NoRequest(p)
    /\ UNCHANGED <<backend, now, closing, alone>>

\* the health route answers: response.raise_for_status()
ProbeAnswers(p, status) ==
    /\ pc[p] = "probe"
    /\ Ends(p, IF status = "2xx" THEN NoExc
               ELSE ValidateEscapes("httpx.HTTPStatusError"))
    /\ UNCHANGED <<backend, now, op, calls, sent, closing, alone>>

\* the GET fails, or the task is cancelled while awaiting it
ProbeRaises(p, e) ==
    /\ pc[p] = "probe"
    /\ Ends(p, ValidateEscapes(e))
    /\ UNCHANGED <<backend, now, op, calls, sent, closing, alone>>

\* ----------------------------------------------------------------- resolve
\* resolve up to the await that opens the stream. request_info is the
\* record the harness allocated for this request.
Resolve(p, request_type, body, history) ==
    /\ pc[p] = "idle"
    /\ LET precheck == ResolvePrecheck(async_client, api_routes, request_type,
                                       body, history)
       IN  \E t \in IF precheck = NoExc THEN Clock(now) ELSE {now} :
             LET entry == ResolveEntry(EmptyTimings, precheck, t)
             IN  /\ timings' = [timings EXCEPT ![p] = entry.timings]
                 /\ sent' = [sent EXCEPT ![p] = entry.sent]
                 /\ pc' = [pc EXCEPT ![p] = entry.pc]
                 /\ exc' = [exc EXCEPT ![p] = precheck]
                 /\ now' = t
    /\ op' = [op EXCEPT ![p] = "resolve"]
    /\ args' = [args EXCEPT ![p] =
                  [request_type |-> request_type, body |-> body, history |-> history]]
    /\ endWrites' = [endWrites EXCEPT ![p] = 0]
    /\ end_reached' = [end_reached EXCEPT ![p] = FALSE]
    /\ handler' = [handler EXCEPT ![p] = NewHandler]
    /\ yielded' = [yielded EXCEPT ![p] = 0]
    /\ received' = [received EXCEPT ![p] = <<>>]
    /\ UNCHANGED <<backend, closing, alone>>

\* p leaves the try statement whose timing record is rec, normally or
\* with e raised, and then yields its one pair or lets the exception out:
\* `yield response_handler.compile_streaming(request), request_info`
LeaveTry(p, e, rec, from) ==
    \E t \in Clock(from) :
      LET exit == ExitTry([timings |-> rec, endWrites |-> endWrites[p]], e, t)
      IN  /\ now' = t
          /\ timings' = [timings EXCEPT ![p] = exit.timings]
          /\ endWrites' = [endWrites EXCEPT ![p] = exit.endWrites]
          /\ exc' = [exc EXCEPT ![p] = exit.exc]
          /\ handler' = [handler EXCEPT ![p] =
                           IF exit.yields THEN compile_streaming(@) ELSE @]
          /\ yielded' = [yielded EXCEPT ![p] = IF exit.yields THEN @ + 1 ELSE @]
          /\ received' = [received EXCEPT ![p] = <<>>]
          /\ pc' = [pc EXCEPT ![p] =
                      IF exit.yields /\ exit.exc = NoExc THEN "yielded" ELSE "idle"]

\* Faulty variant: stream.raise_for_status() is missing, so the lines of an
\* error response are read like any others.
StreamOpensUnchecked(p, status) ==
    /\ pc[p] = "connect"
    /\ pc' = [pc EXCEPT ![p] = "iter"]
    /\ end_reached' = [end_reached EXCEPT ![p] = FALSE]
    /\ UNCHANGED <<now, timings, endWrites, exc, handler, yielded>>
    /\ UNCHANGED <<backend, op, args, sent, received, closing, alone>>

\* the stream opens: stream.raise_for_status(); end_reached = False
StreamOpens(p, status) ==
    /\ pc[p] = "connect"
    /\ IF status = "2xx"
       THEN /\ pc' = [pc EXCEPT ![p] = "iter"]
            /\ end_reached' = [end_reached EXCEPT ![p] = FALSE]
            /\ UNCHANGED <<now, timings, endWrites, exc, handler, yielded, received>>
       ELSE /\ LeaveTry(p, "httpx.HTTPStatusError", timings[p], now)
            /\ UNCHANGED end_reached
    /\ UNCHANGED <<backend, op, args, sent, closing, alone>>

\* an await inside the try statement raises: the transport fails, or the
\* task is cancelled
StreamRaises(p, e) ==
    /\ pc[p] \in {"connect", "iter"}
    /\ LeaveTry(p, e, timings[p], now)
    /\ UNCHANGED <<backend, op, args, end_reached, sent, closing, alone>>

\* Faulty variant: end_reached is kept on the backend object, which the
\* calls share, not in a local variable.
LineArrivesSharedFlag(p, chunk) ==
    /\ pc[p] = "iter"
    /\ timings[p].request_iterations < MaxIter
    /\ \E iter_time \in Clock(now) :
         IF DecoderRaises(chunk)
         THEN /\ LeaveTry(p, "DecodeError",
                          RecordRequestIteration(timings[p], iter_time), iter_time)
              /\ UNCHANGED end_reached
         ELSE LET iterations == LineIterations(chunk, END_OF_STREAM_LINE)
              IN  /\ now' = iter_time
                  /\ timings' = [timings EXCEPT ![p] =
                                   LoopBody(@, iter_time, iterations, end_reached[p])]
                  /\ end_reached' = [q \in Tasks |->
                                       EndReachedAfter(iterations, end_reached[p])]
                  /\ handler' = [handler EXCEPT ![p] =
                                   add_streaming_line(@, chunk, END_OF_STREAM_LINE)]
                  /\ received' = [received EXCEPT ![p] = Append(@, chunk)]
                  /\ UNCHANGED <<pc, exc, endWrites, yielded>>
    /\ UNCHANGED <<backend, op, args, sent, closing, alone>>

\* aiter_lines() hands over a line: one pass of the loop body
LineArrives(p, chunk) ==
    /\ pc[p] = "iter"
    /\ timings[p].request_iterations < MaxIter
    /\ \E iter_time \in Clock(now) :
         IF DecoderRaises(chunk)
         THEN /\ LeaveTry(p, "DecodeError",
                          RecordRequestIteration(timings[p], iter_time), iter_time)
              /\ UNCHANGED end_reached
         ELSE LET iterations == LineIterations(chunk, END_OF_STREAM_LINE)
              IN  /\ now' = iter_time
                  /\ timings' = [timings EXCEPT ![p] =
                                   LoopBody(@, iter_time, iterations, end_reached[p])]
                  /\ end_reached' = [end_reached EXCEPT ![p] =
                                       EndReachedAfter(iterations, @)]
                  /\ handler' = [handler EXCEPT ![p] =
                                   add_streaming_line(@, chunk, END_OF_STREAM_LINE)]
                  /\ received' = [received EXCEPT ![p] = Append(@, chunk)]
                  /\ UNCHANGED <<pc, exc, endWrites, yielded>>
    /\ UNCHANGED <<backend, op, args, sent, closing, alone>>

\* aiter_lines() is exhausted: the try statement is left normally
StreamCloses(p) ==
    /\ pc[p] = "iter"
    /\ LeaveTry(p, "None", timings[p], now)
    /\ UNCHANGED <<backend, op, args, end_reached, sent, closing, alone>>

\* the consumer asks for the next pair: the generator is exhausted
GeneratorReturns(p) ==
    /\ pc[p] = "yielded"
    /\ Ends(p, NoExc)
    /\ UNCHANGED <<backend, now, op, calls, sent, closing, alone>>

\* ------------------------------------------------------------ next state
Step(p) ==
    \/ ProcessStartup(p)
    \/ ProcessShutdown(p)
    \/ AcloseReturns(p)
    \/ \E e \in {"httpx.RequestError"} \cup BaseExceptions : AcloseRaises(p, e)
    \/ Validate(p)
    \/ \E status \in Statuses : ProbeAnswers(p, status)
    \/ \E e \in TransportErrors \cup BaseExceptions : ProbeRaises(p, e)
    \/ \E request_type \in RequestTypes, body \in Bodies, history \in Histories :
          Resolve(p, request_type, body, history)
    \/ \E status \in Statuses : StreamOpens(p, status)
    \/ \E e \in TransportErrors \cup BaseExceptions : StreamRaises(p, e)
    \/ \E chunk \in Lines : LineArrives(p, chunk)
    \/ StreamCloses(p)
    \/ GeneratorReturns(p)

\* The harness issues one call at a time.
Next == Step(MainTask)
Spec == Init /\ [][Next]_vars

\* ----------------------------------------------- concurrent lifecycle calls
\* The lifecycle methods called from several tasks of one event loop: a
\* task suspended in `await aclose()` lets the others run.
LifecycleStep(p) ==
    \/ ProcessStartup(p)
    \/ ProcessShutdown(p)
    \/ AcloseReturns(p)
    \/ \E e \in {"httpx.RequestError"} \cup BaseExceptions : AcloseRaises(p, e)

NextLifecycle == \E p \in Tasks : LifecycleStep(p)
SpecLifecycle == Init /\ [][NextLifecycle]_vars

\* ------------------------------------------------- concurrent resolve calls
\* A backend that process_startup has started, and no call made yet.
InitStarted ==
    /\ api_routes = API_ROUTES
    /\ in_process = TRUE
    /\ async_client = Some(1)
    /\ clients = 1
    /\ closeCount = <<0>>
    /\ now = 0
    /\ pc = [p \in Tasks |-> "idle"]
    /\ op = [p \in Tasks |-> "none"]
    /\ exc = [p \in Tasks |-> NoExc]
    /\ args = [p \in Tasks |-> NoArgs]
    /\ timings = [p \in Tasks |-> EmptyTimings]
    /\ endWrites = [p \in Tasks |-> 0]
    /\ end_reached = [p \in Tasks |-> FALSE]
    /\ handler = [p \in Tasks |-> NewHandler]
    /\ yielded = [p \in Tasks |-> 0]
    /\ received = [p \in Tasks |-> <<>>]
    /\ sent = [p \in Tasks |-> 0]
    /\ closing = [p \in Tasks |-> None]
    /\ vbody = {}
    /\ vverdict = Pending

\* The lines streamed to concurrent calls: the end-of-stream line, a line
\* without units, a line with a unit, a line the decoder rejects.
ConcurrentLines == {END_OF_STREAM_LINE, "", "partial:ab", "{malformed"}

\* The harness runs resolve in several tasks at once, each with its own
\* request_info and a request that passes the checks.
ResolveStep(p) ==
    \/ Resolve(p, "next_edit_suggestions", Required, [given |-> FALSE, turns |-> 0])
    \/ \E status \in Statuses : StreamOpens(p, status)
    \/ \E e \in TransportErrors \cup BaseExceptions : StreamRaises(p, e)
    \/ \E chunk \in ConcurrentLines : LineArrives(p, chunk)
    \/ StreamCloses(p)
    \/ GeneratorReturns(p)

\* The clock stands still here: the time stamps of one call are Spec's
\* matter, the counters of two calls are this specification's.
NextResolves == (\E p \in Tasks : ResolveStep(p)) /\ now' = now
SpecResolves == InitStarted /\ [][NextResolves]_vars

\* ------------------------------------------------------ the validator alone
InitValidate ==
    /\ api_routes = API_ROUTES
    /\ in_process = FALSE
    /\ async_client = None
    /\ clients = 0
    /\ closeCount = <<>>
    /\ now = 0
    /\ pc = [p \in Tasks |-> "idle"]
    /\ op = [p \in Tasks |-> "none"]
    /\ exc = [p \in Tasks |-> NoExc]
    /\ args = [p \in Tasks |-> NoArgs]
    /\ timings = [p \in Tasks |-> EmptyTimings]
    /\ endWrites = [p \in Tasks |-> 0]
    /\ end_reached = [p \in Tasks |-> FALSE]
    /\ handler = [p \in Tasks |-> NewHandler]
    /\ yielded = [p \in Tasks |-> 0]
    /\ received = [p \in Tasks |-> <<>>]
    /\ sent = [p \in Tasks |-> 0]
    /\ closing = [p \in Tasks |-> None]
    /\ vbody \in SUBSET AllFields
    /\ vverdict = Pending

\* self._validate_request_body(request_body)
ValidateRequestBody ==
    /\ ~vverdict.done
    /\ vverdict' = [done |-> TRUE, exc |-> validate_request_body(vbody)]
    /\ UNCHANGED <<backend, now, pc, op, exc, calls, sent, closing, vbody>>

NextValidate == ValidateRequestBody
SpecValidate == InitValidate /\ [][NextValidate]_vars

\* =================================================================== claims
\* The resolve call of p got past its checks: request_start was recorded.
Started(p) == op[p] = "resolve" /\ timings[p].request_start # None
\* The resolve call of p has left its try statement.
LeftTry(p) == Started(p) /\ pc[p] \in {"yielded", "idle"}
\* What a failure inside the try statement is raised from.
StreamCauses == TransportErrors \cup {"httpx.HTTPStatusError", "DecodeError"}

\* C1: once resolve has recorded request_start, every way of leaving the
\* streamed read (the stream closes, a non-success status, a transport
\* failure after any number of lines, a decoder failure) has recorded
\* request_end, with request_end >= request_start, by the time the pair is
\* yielded or the error is out; and a failure is out as the streaming
\* RuntimeError raised from its cause, never as the cause itself.
C1_RequestEndOnEveryExit ==
    \A p \in Tasks :
      LeftTry(p) =>
        /\ timings[p].request_end # None
        /\ Val(timings[p].request_end) >= Val(timings[p].request_start)
        /\ exc[p] # NoExc /\ exc[p].type \notin BaseExceptions =>
             /\ exc[p].cause \in StreamCauses
             /\ exc[p] = StreamingError(exc[p].cause)
             /\ exc[p].type \notin StreamCauses
\* A transport failure after three lines, the clock having moved since
\* request_start.
C1_Witness ==
    \E p \in Tasks :
      /\ LeftTry(p)
      /\ exc[p] = StreamingError("httpx.TransportError")
      /\ timings[p].request_iterations = 3
      /\ timings[p].request_end # None
      /\ Val(timings[p].request_end) > Val(timings[p].request_start)

\* C2 as stated: after every call to resolve, however it ends, request_end
\* has been set, exactly once during the call.
C2_RequestEndAfterEveryCall ==
    \A p \in Tasks :
      op[p] = "resolve" /\ pc[p] = "idle" =>
        timings[p].request_end # None /\ endWrites[p] = 1
\* C2, amended: after every call to resolve that got past its checks (it
\* recorded request_start), however it ends, request_end has been set,
\* exactly once during the call; a call that a check rejects leaves
\* request_end unset.
C2_RequestEndOnceAfterStart ==
    \A p \in Tasks :
      op[p] = "resolve" /\ pc[p] \in {"idle", "yielded"} =>
        IF Started(p)
        THEN timings[p].request_end # None /\ endWrites[p] = 1
        ELSE timings[p].request_end = None /\ endWrites[p] = 0
\* A call cancelled while it waits for a line.
C2_Witness ==
    \E p \in Tasks :
      /\ Started(p) /\ pc[p] = "idle"
      /\ exc[p].type = "asyncio.CancelledError"
      /\ timings[p].request_iterations >= 1
      /\ endWrites[p] = 1

\* The resolve call of p has consumed its stream to the end.
Consumed(p) ==
    /\ Started(p)
    /\ \/ pc[p] = "yielded"
       \/ pc[p] = "idle" /\ exc[p] = NoExc
\* Every line of p's stream so far carried no unit or one unit, and none was
\* the end-of-stream line.
PlainStream(p) == ~handler[p].done /\ handler[p].units = handler[p].unit_lines

\* C3: a fully consumed stream of n lines, with no end-of-stream line, of
\* which k lines carry one unit each and the others none, leaves
\* request_iterations = n and token_iterations = k; if k >= 1 then
\* first_request_iteration <= first_token_iteration <= last_token_iteration
\* <= last_request_iteration; if k = 0 the two token timestamps stay unset.
C3_CountsAndOrder ==
    \A p \in Tasks :
      Consumed(p) /\ PlainStream(p) =>
        LET t == timings[p]
            n == handler[p].consumed
            k == handler[p].unit_lines
        IN  /\ t.request_iterations = n
            /\ t.token_iterations = k
            /\ k >= 1 =>
                 /\ t.first_request_iteration # None
                 /\ t.first_token_iteration # None
                 /\ t.last_token_iteration # None
                 /\ t.last_request_iteration # None
                 /\ Val(t.first_request_iteration) <= Val(t.first_token_iteration)
                 /\ Val(t.first_token_iteration) <= Val(t.last_token_iteration)
                 /\ Val(t.last_token_iteration) <= Val(t.last_request_iteration)
            /\ k = 0 =>
                 /\ t.first_token_iteration = None
                 /\ t.last_token_iteration = None
\* Three lines, the second and the third carrying a unit, read at three
\* different times.
C3_Witness ==
    \E p \in Tasks :
      /\ Consumed(p) /\ PlainStream(p)
      /\ handler[p].consumed = 3 /\ handler[p].unit_lines = 2
      /\ Val(timings[p].first_request_iteration) < Val(timings[p].first_token_iteration)
      /\ Val(timings[p].first_token_iteration) < Val(timings[p].last_token_iteration)

\* p's step is one pass of the loop body on a line the decoder accepted.
LineStep(p) ==
    /\ pc[p] = "iter"
    /\ handler'[p].consumed = handler[p].consumed + 1

\* C4: once the decoder has returned the termination signal for a line,
\* every later line of the stream, whatever the decoder returns for it,
\* leaves token_iterations, first_token_iteration and last_token_iteration
\* as they are, while request_iterations is incremented and
\* last_request_iteration is set to the time of the line.
C4_FirstTerminationWins ==
    [][\A p \in Tasks :
         LineStep(p) /\ handler[p].done =>
           /\ timings'[p].token_iterations = timings[p].token_iterations
           /\ timings'[p].first_token_iteration = timings[p].first_token_iteration
           /\ timings'[p].last_token_iteration = timings[p].last_token_iteration
           /\ timings'[p].request_iterations = timings[p].request_iterations + 1
           /\ timings'[p].last_request_iteration = Some(now')
           /\ pc'[p] = "iter"]_vars
\* The end-of-stream line first, then two more lines, one of them with
\* units that were not counted.
C4_Witness ==
    \E p \in Tasks :
      /\ pc[p] = "iter"
      /\ handler[p].done
      /\ handler[p].consumed = 3
      /\ handler[p].unit_lines = 1
      /\ timings[p].token_iterations = 0
      /\ timings[p].request_iterations = 3

\* C5: the validator accepts a body if and only if every required field is
\* among its keys and every key is a required or an optional field (so it
\* accepts the required fields alone, and with any optional fields added),
\* and it leaves the body as it is.
C5_AcceptsExactlyTheValidBodies ==
    /\ [](vverdict.done =>
            (vverdict.exc = NoExc <=>
               /\ \A f \in Required : f \in vbody
               /\ \A f \in vbody : f \in Required \/ f \in Optional))
    /\ [][vbody' = vbody]_vars
\* The required fields with two of the optional ones, accepted.
C5_Witness ==
    /\ vverdict.done
    /\ vverdict.exc = NoExc
    /\ vbody = Required \cup {"seed", "top_p"}

\* C6 as stated: for a body that misses a required field the validator
\* raises, and the fields its message names as missing are exactly the
\* required fields that the body does not have.
C6_NamesTheMissingFields ==
    vverdict.done /\ Required \ vbody # {} =>
      /\ vverdict.exc # NoExc
      /\ vverdict.exc.named = Required \ vbody

\* A precondition error of resolve: a usage error or a validation error.
IsPrecheckError(e) ==
    \/ e = BackendNotStarted
    \/ e = MultiTurnUnsupported
    \/ e.type = "ValueError"

\* C7: when resolve fails with a usage error (not started, history given,
\* unsupported request type) or a validation error (a field missing or
\* superfluous), no HTTP request was issued, the decoder consumed no line,
\* and no field of the timing record, request_start included, was written.
C7_NoEffectBeforeTheChecksPass ==
    \A p \in Tasks :
      op[p] = "resolve" /\ pc[p] = "idle" /\ IsPrecheckError(exc[p]) =>
        /\ sent[p] = 0
        /\ handler[p] = NewHandler
        /\ timings[p] = EmptyTimings
        /\ endWrites[p] = 0
        /\ yielded[p] = 0
\* A started backend rejects a body for its superfluous field.
C7_Witness ==
    \E p \in Tasks :
      /\ op[p] = "resolve" /\ pc[p] = "idle"
      /\ in_process
      /\ exc[p].msg = "Request body contains superfluous fields"
      /\ exc[p].named = {"foo"}
      /\ args[p].body = Required \cup {"foo"}

\* p's step is a call of resolve.
CallsResolve(p) ==
    Resolve(p, args'[p].request_type, args'[p].body, args'[p].history)
\* p's step ends in the usage error e and leaves the lifecycle state alone.
Rejected(p, e) ==
    /\ pc'[p] = "idle"
    /\ exc'[p] = e
    /\ in_process' = in_process
    /\ async_client' = async_client

\* C8: with the calls made one after the other, process_startup on a
\* started backend, process_shutdown on a backend that is not started, and
\* resolve or validate on a backend that is not started (never started, or
\* shut down) each raise the usage error, and the rejected call leaves the
\* lifecycle state as it was.
C8_LifecycleMisuseIsRejected ==
    [][\A p \in Tasks :
         /\ in_process /\ ProcessStartup(p) => Rejected(p, BackendAlreadyStarted)
         /\ ~in_process /\ ProcessShutdown(p) => Rejected(p, BackendNotStarted)
         /\ ~in_process /\ Validate(p) => Rejected(p, BackendNotStarted)
         /\ ~in_process /\ CallsResolve(p) => Rejected(p, BackendNotStarted)]_vars
\* resolve is rejected on a backend that was started and shut down.
C8_Witness ==
    \E p \in Tasks :
      /\ ~in_process /\ clients >= 1 /\ closeCount[clients] = 1
      /\ op[p] = "resolve" /\ pc[p] = "idle"
      /\ exc[p] = BackendNotStarted

C10_TextCompletionsOnDefaultRoutes ==
    \A p \in Tasks :
      /\ op[p] = "resolve" /\ pc[p] = "idle"
      /\ in_process
      /\ api_routes = API_ROUTES
      /\ args[p] = [request_type |-> "text_completions", body |-> Required,
                    history |-> [given |-> FALSE, turns |-> 0]]
      => ~IsPrecheckError(exc[p])

\* p's step belongs to a validate call.
ValidateStep(p) ==
    \/ Validate(p)
    \/ \E status \in Statuses : ProbeAnswers(p, status)
    \/ \E e \in TransportErrors \cup BaseExceptions : ProbeRaises(p, e)

\* C11: validate on a started backend reports every failure of the health
\* probe (the connection or a timeout fails in the transport, the status is
\* not a success) as the one RuntimeError "Backend validation request
\* failed." raised from the cause, never as the transport's own exception;
\* a probe that succeeds returns without error; and no step of validate
\* changes the started flag or the transport handle.
C11_ProbeFailuresAreWrapped ==
    [][\A p \in Tasks :
         /\ ProbeAnswers(p, "2xx") => exc'[p] = NoExc /\ pc'[p] = "idle"
         /\ \A cause \in TransportErrors \cup {"httpx.HTTPStatusError"} :
              \/ ProbeRaises(p, cause)
              \/ cause = "httpx.HTTPStatusError" /\ ProbeAnswers(p, "5xx")
              => /\ pc'[p] = "idle"
                 /\ exc'[p] = ValidationRequestFailed(cause)
                 /\ exc'[p].type = "RuntimeError"
                 /\ exc'[p].type # cause
         /\ ValidateStep(p) =>
              in_process' = in_process /\ async_client' = async_client]_vars
\* A probe answered with a 5xx status: validate has raised the wrapping
\* error and the backend is still started with its handle.
C11_Witness ==
    \E p \in Tasks :
      /\ op[p] = "validate" /\ pc[p] = "idle"
      /\ exc[p] = ValidationRequestFailed("httpx.HTTPStatusError")
      /\ in_process /\ async_client # None

\* p's last call was resolve on a started backend. (p's own calls are the
\* only ones to change the lifecycle state, and each sets op[p].)
ResolveOnStarted(p) == op[p] = "resolve" /\ async_client # None

\* C12: resolve called on a started backend with a history of at least one
\* turn raises the multi-turn NotImplementedError at once, whatever the
\* request type and the body are: the call is never left waiting on a
\* stream, issues no HTTP request and touches neither the timing record
\* nor the decoder.
C12_NonEmptyHistoryIsRejected ==
    \A p \in Tasks :
      ResolveOnStarted(p) /\ args[p].history.given /\ args[p].history.turns > 0 =>
        /\ pc[p] = "idle"
        /\ exc[p] = MultiTurnUnsupported
        /\ sent[p] = 0
        /\ timings[p] = EmptyTimings
        /\ handler[p] = NewHandler
\* A one-turn history with a request that every other check would pass.
C12_Witness ==
    \E p \in Tasks :
      /\ ResolveOnStarted(p) /\ pc[p] = "idle"
      /\ args[p].history = [given |-> TRUE, turns |-> 1]
      /\ args[p].request_type \in DOMAIN api_routes
      /\ args[p].body = Required
      /\ exc[p] = MultiTurnUnsupported

\* The fields of a timing record that the read loop writes.
LoopFields(t) ==
    <<t.request_iterations, t.first_request_iteration, t.last_request_iteration,
      t.token_iterations, t.first_token_iteration, t.last_token_iteration>>

\* C13: when the stream opens with a non-success status, resolve ends at
\* once in the streaming RuntimeError raised from the HTTPStatusError: no
\* line is read, so request_iterations, first_request_iteration,
\* last_request_iteration and the token fields are as they were and the
\* decoder has consumed nothing, while request_start and request_end are
\* both set; no pair is yielded.
C13_ErrorStatusAbortsBeforeAnyLine ==
    [][\A p \in Tasks :
         StreamOpens(p, "5xx") =>
           /\ pc'[p] = "idle"
           /\ exc'[p] = StreamingError("httpx.HTTPStatusError")
           /\ LoopFields(timings'[p]) = LoopFields(timings[p])
           /\ LoopFields(timings'[p]) = LoopFields(EmptyTimings)
           /\ handler'[p] = handler[p]
           /\ handler'[p].consumed = 0
           /\ timings'[p].request_start = timings[p].request_start
           /\ timings'[p].request_start # None
           /\ timings'[p].request_end = Some(now')
           /\ yielded'[p] = 0]_vars
\* A resolve call that ended on the status of its stream.
C13_Witness ==
    \E p \in Tasks :
      /\ LeftTry(p) /\ pc[p] = "idle"
      /\ exc[p] = StreamingError("httpx.HTTPStatusError")
      /\ timings[p].request_iterations = 0
      /\ timings[p].request_end # None
      /\ handler[p].consumed = 0

\* p is inside a resolve call that got past its checks.
InResolve(p) == op[p] = "resolve" /\ pc[p] \in {"connect", "iter", "yielded"}

\* C14: during one resolve call on an empty timing record,
\* request_iterations and token_iterations never decrease from a state to
\* the next; first_request_iteration and first_token_iteration, once set,
\* keep their value; first_token_iteration gets set only by a pass of the
\* loop body on a line for which the decoder returned more than zero units,
\* no termination having been seen before; and token_iterations > 0 holds
\* exactly when first_token_iteration is set.
C14_CountersGrowFirstStampsStay ==
    /\ [][\A p \in Tasks :
            InResolve(p) =>
              LET t == timings[p]
                  u == timings'[p]
              IN  /\ u.request_iterations >= t.request_iterations
                  /\ u.token_iterations >= t.token_iterations
                  /\ t.first_request_iteration # None =>
                       u.first_request_iteration = t.first_request_iteration
                  /\ t.first_token_iteration # None =>
                       u.first_token_iteration = t.first_token_iteration
                  /\ t.first_token_iteration = None /\ u.first_token_iteration # None =>
                       /\ LineStep(p)
                       /\ handler'[p].units > handler[p].units
                       /\ ~handler[p].done
                       /\ ~end_reached[p]
                       /\ u.first_token_iteration = Some(now')]_vars
    /\ [](\A p \in Tasks :
            op[p] = "resolve" =>
              (timings[p].token_iterations > 0 <=>
                 timings[p].first_token_iteration # None))
\* Three lines read at three different times, the first two with units:
\* first_token_iteration still shows the time of the first.
C14_Witness ==
    \E p \in Tasks :
      /\ InResolve(p)
      /\ timings[p].request_iterations = 3
      /\ timings[p].token_iterations = 3
      /\ timings[p].first_token_iteration = Some(0)
      /\ timings[p].last_token_iteration = Some(1)
      /\ timings[p].last_request_iteration = Some(2)

\* C15: a resolve call cancelled while it waits for the stream to open or
\* for the next line records request_end on its way out, raises the
\* CancelledError itself, not the streaming RuntimeError, and neither
\* compiles nor yields a pair.
C15_CancellationRunsFinally ==
    [][\A p \in Tasks :
         StreamRaises(p, "asyncio.CancelledError") =>
           /\ pc[p] \in {"connect", "iter"}
           /\ pc'[p] = "idle"
           /\ exc'[p] = Exc("asyncio.CancelledError", "")
           /\ exc'[p].type # "RuntimeError"
           /\ timings'[p].request_end = Some(now')
           /\ endWrites'[p] = endWrites[p] + 1
           /\ LoopFields(timings'[p]) = LoopFields(timings[p])
           /\ yielded'[p] = 0
           /\ handler'[p].compiled = 0]_vars
\* A call cancelled after two lines, the second with units, some time
\* after its start.
C15_Witness ==
    \E p \in Tasks :
      /\ LeftTry(p) /\ pc[p] = "idle"
      /\ exc[p] = Exc("asyncio.CancelledError", "")
      /\ timings[p].request_iterations = 2
      /\ timings[p].token_iterations = 2
      /\ Val(timings[p].request_end) > Val(timings[p].request_start)
      /\ yielded[p] = 0

\* C16 as stated: under every interleaving of concurrent lifecycle calls at
\* most one lifecycle transition is in progress: a process_shutdown started
\* while another still awaits aclose() is rejected, so that no two tasks
\* are closing the handle at once, no handle is closed more than once, and
\* no call dereferences a handle that is None.
C16_OneLifecycleTransitionAtATime ==
    /\ Cardinality({p \in Tasks : pc[p] = "aclose"}) <= 1
    /\ \A c \in 1..clients : closeCount[c] <= 1
    /\ \A p \in Tasks : exc[p].type # "AttributeError"

\* What belongs to p's call.
Own(p) ==
    <<pc[p], op[p], exc[p], args[p], timings[p], endWrites[p], end_reached[p],
      handler[p], yielded[p], received[p], sent[p]>>
\* The counters of a read loop and its termination flag.
Counters(t, flag) == <<t.request_iterations, t.token_iterations, flag>>

\* C17: two resolve calls run at once on one started backend, each with its
\* own timing record and decoder, their line arrivals interleaved in every
\* way. While a call reads, and when it leaves its loop, its
\* request_iterations, token_iterations and termination flag are those of
\* the same lines read by a call on its own; it ends as it would alone (one
\* pair when the stream closes, the streaming error on a line the decoder
\* rejects, counted as a request iteration); and a step of one call
\* changes nothing of the other: not its timing record, its termination
\* flag, its decoder or its outcome.
C17_ConcurrentCallsAreIndependent ==
    /\ [](\A p \in Tasks :
            pc[p] = "iter" =>
              LET a == ReadAlone(received[p])
              IN  Counters(timings[p], end_reached[p]) =
                    Counters(a.timings, a.end_reached))
    /\ [][\A p \in Tasks :
            pc[p] = "iter" /\ pc'[p] # "iter" =>
              LET a == ReadAlone(received[p])
                  rejected == exc'[p] = StreamingError("DecodeError")
              IN  /\ timings'[p].token_iterations = a.timings.token_iterations
                  /\ timings'[p].request_iterations =
                       a.timings.request_iterations + (IF rejected THEN 1 ELSE 0)
                  /\ end_reached'[p] = a.end_reached
                  /\ pc'[p] = "yielded" <=> exc'[p] = NoExc
                  /\ yielded'[p] = (IF exc'[p] = NoExc THEN 1 ELSE 0)]_vars
    /\ [][\A p, q \in Tasks :
            p # q /\ Own(p)' # Own(p) => Own(q)' = Own(q)]_vars
\* Both calls are reading, three lines each: one has seen the
\* end-of-stream line after its first unit, the other has not.
C17_Witness ==
    /\ pc["t1"] = "iter" /\ pc["t2"] = "iter"
    /\ received["t1"] = <<"partial:ab", END_OF_STREAM_LINE, "partial:ab">>
    /\ received["t2"] = <<"", "partial:ab", "partial:ab">>
    /\ timings["t1"].token_iterations = 1 /\ end_reached["t1"]
    /\ timings["t2"].token_iterations = 2 /\ ~end_reached["t2"]

\* The request type of p's call has no route; its body is not valid.
UnknownType(p) == args[p].request_type \notin DOMAIN api_routes
InvalidBody(p) ==
    \/ Required \ args[p].body # {}
    \/ args[p].body \ (Required \cup Optional) # {}

\* C18: resolve makes its checks in one order (backend started, history,
\* route of the request type, body) and the first check that fails decides
\* the error alone: on a backend not started the not-started error whatever
\* the arguments; on a started one a supplied history gives the multi-turn
\* error also with an unknown request type; without history an unknown
\* request type gives the unsupported-type ValueError, which lists the keys
\* of the route table, also with an invalid body; and only with a routed
\* type does an invalid body give the validator's ValueError.
C18_FirstFailingCheckDecides ==
    \A p \in Tasks :
      op[p] = "resolve" =>
        IF async_client = None
          THEN pc[p] = "idle" /\ exc[p] = BackendNotStarted
        ELSE IF args[p].history.given
          THEN pc[p] = "idle" /\ exc[p] = MultiTurnUnsupported
        ELSE IF UnknownType(p)
          THEN /\ pc[p] = "idle"
               /\ exc[p] = UnsupportedRequestType(DOMAIN api_routes)
               /\ exc[p].named = DOMAIN api_routes
               /\ exc[p].got = {}
        ELSE IF InvalidBody(p)
          THEN /\ pc[p] = "idle"
               /\ exc[p].type = "ValueError"
               /\ exc[p].msg \in {"Request body is missing expected fields",
                                   "Request body contains superfluous fields"}
        ELSE ~IsPrecheckError(exc[p]) /\ Started(p)
\* An unknown request type with a body that misses fields: the error is
\* the unsupported-type one, naming the two keys of the default table.
C18_Witness ==
    \E p \in Tasks :
      /\ op[p] = "resolve" /\ pc[p] = "idle" /\ async_client # None
      /\ ~args[p].history.given
      /\ args[p].request_type = "text_completions"
      /\ args[p].body = {"filepath", "prefix"}
      /\ exc[p].msg = "Unsupported request type"
      /\ exc[p].named = {"next_edit_suggestions", "health"}

\* No lifecycle method is suspended in its await.
Quiescent == \A p \in Tasks : pc[p] # "aclose"

\* C19: whenever no lifecycle method is in mid-execution, _in_process is
\* true exactly when _async_client holds a client; a process_shutdown whose
\* aclose() raises leaves the flag true and the same client attached; and
\* on a backend that was shut down, process_startup succeeds and attaches
\* a client that was never attached before and is not closed.
C19_FlagAndHandleAgree ==
    /\ [](Quiescent => (in_process <=> async_client # None))
    /\ [][\A p \in Tasks :
            \A e \in {"httpx.RequestError"} \cup BaseExceptions :
              AcloseRaises(p, e) =>
                /\ exc'[p] = Exc(e, "")
                /\ in_process /\ in_process'
                /\ async_client' = async_client
                /\ async_client' = closing[p]
                /\ closeCount' = closeCount]_vars
    /\ [][\A p \in Tasks :
            ProcessStartup(p) /\ ~in_process =>
              /\ exc'[p] = NoExc
              /\ in_process'
              /\ async_client' # None
              /\ Val(async_client') \notin 1..clients
              /\ closeCount'[Val(async_client')] = 0]_vars
\* Started, shut down and started again: the second client is attached,
\* the first is closed.
C19_Witness ==
    \E p \in Tasks :
      /\ Quiescent
      /\ op[p] = "process_startup" /\ exc[p] = NoExc
      /\ in_process
      /\ async_client = Some(2)
      /\ closeCount = <<1, 0>>

\* C20: on a started backend resolve raises the multi-turn
\* NotImplementedError for every history that is passed at all, the empty
\* list included, before anything else happens; only a call without a
\* history argument (None, the default) gets to the route lookup and the
\* body validation, and it never ends in the multi-turn error.
C20_AnySuppliedHistoryIsRejected ==
    \A p \in Tasks :
      ResolveOnStarted(p) =>
        /\ args[p].history.given =>
             /\ pc[p] = "idle"
             /\ exc[p] = MultiTurnUnsupported
             /\ sent[p] = 0
             /\ timings[p].request_start = None
        /\ ~args[p].history.given =>
             /\ exc[p] # MultiTurnUnsupported
             /\ UnknownType(p) => exc[p].msg = "Unsupported request type"
             /\ ~UnknownType(p) /\ InvalidBody(p) => exc[p].type = "ValueError"
             /\ ~UnknownType(p) /\ ~InvalidBody(p) => Started(p)
\* An empty history list with a request that every other check would pass.
C20_Witness ==
    \E p \in Tasks :
      /\ ResolveOnStarted(p) /\ pc[p] = "idle"
      /\ args[p].history = [given |-> TRUE, turns |-> 0]
      /\ ~UnknownType(p)
      /\ args[p].body = Required
      /\ args[p].request_type = "next_edit_suggestions"
      /\ exc[p] = MultiTurnUnsupported

====
